---- MODULE Spec2Model ----
(***************************************************************************)
(* Signing-key ring of the OAuth server: the three key files key.json,     *)
(* newKey.json and oldKey.json, the key library (lib/keys.js), the four    *)
(* operator scripts that write the files (gen_keys, prepare-new-signing-   *)
(* key, activate-new-signing-key, retire-old-signing-key) and the key set  *)
(* the JWKS route builds from the ring.                                    *)
(*                                                                         *)
(* A JSON object is a function from property names to values.  Every       *)
(* property value is a tuple, so that the JavaScript value `undefined`     *)
(* (the empty tuple) can be compared with any other value.                 *)
(***************************************************************************)
EXTENDS Integers, Sequences, FiniteSets, Bags, TLC

VARIABLES
    fs,         \* the three key files: path -> [exists, cut, data]
    now,        \* wall clock, in ms since the epoch (new Date())
    generated,  \* number of RSA keypairs generateRSAKeypair() has returned
    script,     \* the script the operator ran last (or is running)
    pc,         \* position of the running script, "idle" when none runs
    exit,       \* how the last script run ended
    key,        \* local `key` of activate
    newKey,     \* local `newKey` of activate
    oldKey,     \* local `oldKey` of activate
    privKey,    \* local `privKey` of prepare and gen_keys
    pubKey,     \* local `pubKey` of gen_keys
    pre,        \* history: the files as they were when the running script started
    outgoing,   \* history: the key the last completed activate replaced
    bootstrapped, \* history: a gen_keys main has run to its end
    config,     \* openid.key, openid.newKey, openid.oldKey of the server process
    KEYS,       \* the key set of the loaded jwks route module
    resp,       \* the last response of the jwks handler
    loaded,     \* history: the files as they were when the server process started
    ppid,       \* the constants lib/jwt_sub.js read from the configuration
    awaiting,   \* the generateSub calls that await hkdf: a bag, one copy for
                \* each pending promise
    issued,     \* history: the generateSub calls that returned, with their
                \* results: a bag, one copy for each return
    call,       \* a library function called on its own, with its arguments
    ret,        \* what that call returned
    cache       \* require.cache of a process that calls the exported mains

ringVars == <<fs, now, generated, script, pc, exit, key, newKey, oldKey,
              privKey, pubKey, pre, outgoing, bootstrapped>>

serverVars == <<config, KEYS, resp, loaded>>

ppidVars == <<ppid, awaiting, issued>>

callVars == <<call, ret>>

procVars == <<cache>>

vars == <<ringVars, serverVars, ppidVars, callVars, procVars>>

locals == <<key, newKey, oldKey, privKey, pubKey>>

----------------------------------------------------------------------------
(* Bounds of the model *)

\* keypairs the entropy source hands out in one behaviour
MaxKeys == 5

\* clock ticks in one behaviour
MaxTicks == 2

\* one clock tick: 40 minutes, so that ticks cross half-hour and hour marks
TickMs == 2400000

----------------------------------------------------------------------------
(* JSON objects *)

Undefined == <<>>

EmptyObj == [f \in {} |-> Undefined]

\* obj.f
Get(obj, f) == IF f \in DOMAIN obj THEN obj[f] ELSE Undefined

\* Object.keys(obj).length > 0
NonEmpty(obj) == DOMAIN obj # {}

\* JSON.parse(JSON.stringify(obj)): properties whose value is undefined are dropped
JsonStringify(obj) ==
    [f \in {g \in DOMAIN obj : obj[g] # Undefined} |-> obj[f]]

----------------------------------------------------------------------------
(* lib/keys.js *)

PrivateFields == {"d", "p", "q", "dp", "dq", "qi"}

PublicFields == {"kty", "alg", "kid", "fxa-createdAt", "use", "n", "e"}

\* now.toISOString().slice(0, 10): the UTC day of the instant
IsoDate(ms) == ms \div 86400000

\* sha256(kp.public) in hex, cut to 32 characters; kp names the keypair
PubKeyHash(kp) == <<"sha256", kp>>

\* the hour cut off instead of rounded
CreatedAt_Floor(ms) == (ms \div 3600000) * 3600

\* Math.round(now / 1000 / 3600) * 3600
CreatedAt(ms) == ((ms + 1800000) \div 3600000) * 3600

\* generatePrivateKey(), for the keypair kp drawn at time ms
GeneratePrivateKey(kp, ms) ==
    [f \in {"kty", "kid", "fxa-createdAt", "n", "e"} \cup PrivateFields |->
        CASE f = "kty" -> <<"RSA">>
          [] f = "kid" -> <<IsoDate(ms), PubKeyHash(kp)>>
          [] f = "fxa-createdAt" -> <<CreatedAt(ms)>>
          [] f = "n" -> <<"n", kp>>
          [] f = "e" -> <<"AQAB">>
          [] OTHER -> <<f, kp>>]

\* a projection that hands the record through, private parameters included
ExtractPublicKey_Leaky(k) ==
    [f \in PublicFields \cup DOMAIN k |->
        CASE f = "alg" -> <<"RS256">>
          [] f = "use" -> <<"sig">>
          [] OTHER -> Get(k, f)]

\* a projection that does not copy fxa-createdAt
ExtractPublicKey_NoCreatedAt(k) ==
    [f \in PublicFields |->
        CASE f = "alg" -> <<"RS256">>
          [] f = "use" -> <<"sig">>
          [] f = "fxa-createdAt" -> Undefined
          [] OTHER -> Get(k, f)]

\* extractPublicKey(privKey)
ExtractPublicKey(k) ==
    [f \in PublicFields |->
        CASE f = "alg" -> <<"RS256">>
          [] f = "use" -> <<"sig">>
          [] OTHER -> Get(k, f)]

----------------------------------------------------------------------------
(* The key files *)

keyPath == "key.json"
newKeyPath == "newKey.json"
oldKeyPath == "oldKey.json"

Paths == {keyPath, newKeyPath, oldKeyPath}

\* A file is missing, holds the whole JSON text of a record, or is cut: it
\* holds a proper prefix (down to nothing) of the text of the record `data`,
\* which is what a write that was not finished leaves.  No proper prefix of
\* the text JSON.stringify makes of an object parses.
Absent == [exists |-> FALSE, cut |-> FALSE, data |-> EmptyObj]

\* fs.existsSync(p)
ExistsSync(f, p) == f[p].exists

\* require(p) throws a SyntaxError: the file is there and does not parse
RequireThrows(f, p) == f[p].exists /\ f[p].cut

\* require(p) in a fresh process: the parsed content of the file; the
\* scripts reach it where RequireThrows is false, a cut file yields no record
Require(f, p) == IF f[p].cut THEN EmptyObj ELSE f[p].data

\* fs.writeFileSync(p, JSON.stringify(obj, undefined, 2)), run to its end
WriteFileSync(f, p, obj) ==
    [f EXCEPT ![p] = [exists |-> TRUE, cut |-> FALSE, data |-> JsonStringify(obj)]]

\* fs.writeFileSync(p, JSON.stringify(obj, undefined, 2)) stopped after it
\* opened (and so truncated) the file and before it had written all the text
WriteFileSyncCut(f, p, obj) ==
    [f EXCEPT ![p] = [exists |-> TRUE, cut |-> TRUE, data |-> JsonStringify(obj)]]

\* the file holds a non-empty record
HasKey(f, p) == ExistsSync(f, p) /\ ~f[p].cut /\ NonEmpty(Require(f, p))

\* the first of the two asserts only: an empty record passes
MissingActiveKey_ExistsOnly(f) == ~ExistsSync(f, keyPath)

\* the two asserts 'missing active signing key' of prepare, activate and retire
MissingActiveKey(f) ==
    ~(ExistsSync(f, keyPath) /\ NonEmpty(Require(f, keyPath)))

MissingNewKey_ExistsOnly(f) == ~ExistsSync(f, newKeyPath)

\* the two asserts 'missing new signing key' of activate
MissingNewKey(f) ==
    ~(ExistsSync(f, newKeyPath) /\ NonEmpty(Require(f, newKeyPath)))

NewKeyAlreadyExists_WrongPath(f) ==
    ExistsSync(f, oldKeyPath) /\ NonEmpty(Require(f, oldKeyPath))

\* the condition of prepare's assert(false, 'new key alreayd exists; ...')
NewKeyAlreadyExists(f) ==
    ExistsSync(f, newKeyPath) /\ NonEmpty(Require(f, newKeyPath))

----------------------------------------------------------------------------
(* lib/routes/jwks.js *)

\* config.get('openid.key' | 'openid.newKey' | 'openid.oldKey'): the key the
\* file holds, falsy when the file is missing or holds the empty record
ConfigGet(f, p) == [truthy |-> HasKey(f, p), obj |-> Require(f, p)]

\* a pub() that takes alg and use from the key
Pub_AlgFromKey(k) == [f \in PublicFields |-> Get(k, f)]

\* a pub() that hands every property of the key through
Pub_Leaky(k) ==
    [f \in PublicFields \cup DOMAIN k |->
        CASE f = "alg" -> <<"RS256">>
          [] f = "use" -> <<"sig">>
          [] OTHER -> Get(k, f)]

\* pub(key)
Pub(k) ==
    [f \in PublicFields |->
        CASE f = "alg" -> <<"RS256">>
          [] f = "use" -> <<"sig">>
          [] OTHER -> Get(k, f)]

\* a key set that leaves the old key out
Keys_NoOld(privKeyC, newPrivKeyC, oldPubKeyC) ==
    <<Pub(privKeyC.obj)>>
        \o (IF newPrivKeyC.truthy THEN <<Pub(newPrivKeyC.obj)>> ELSE <<>>)

\* a key set that leaves the new key out
Keys_NoNew(privKeyC, newPrivKeyC, oldPubKeyC) ==
    <<Pub(privKeyC.obj)>>
        \o (IF oldPubKeyC.truthy THEN <<Pub(oldPubKeyC.obj)>> ELSE <<>>)

\* a key set with the old key before the new key
Keys_OldFirst(privKeyC, newPrivKeyC, oldPubKeyC) ==
    <<Pub(privKeyC.obj)>>
        \o (IF oldPubKeyC.truthy THEN <<Pub(oldPubKeyC.obj)>> ELSE <<>>)
        \o (IF newPrivKeyC.truthy THEN <<Pub(newPrivKeyC.obj)>> ELSE <<>>)

\* a key set that pushes the old key without looking at it
Keys_AlwaysOld(privKeyC, newPrivKeyC, oldPubKeyC) ==
    <<Pub(privKeyC.obj)>>
        \o (IF newPrivKeyC.truthy THEN <<Pub(newPrivKeyC.obj)>> ELSE <<>>)
        \o <<Pub(oldPubKeyC.obj)>>

\* KEYS.keys, from the three configured keys
Keys(privKeyC, newPrivKeyC, oldPubKeyC) ==
    <<Pub(privKeyC.obj)>>
        \o (IF newPrivKeyC.truthy THEN <<Pub(newPrivKeyC.obj)>> ELSE <<>>)
        \o (IF oldPubKeyC.truthy THEN <<Pub(oldPubKeyC.obj)>> ELSE <<>>)

\* the key set a server loaded from the files f publishes
Publish(f) ==
    Keys(ConfigGet(f, keyPath), ConfigGet(f, newKeyPath), ConfigGet(f, oldKeyPath))

----------------------------------------------------------------------------
(* lib/jwt_sub.js *)
(* A string is a sequence of characters; a character is a 1-tuple <<c>>.   *)
(* A hex character of derived key material is a 2-tuple naming the output  *)
(* byte it encodes, so that it differs from every literal character.       *)

\* generateSub calls recorded in one behaviour
MaxCalls == 2

HexDigits ==
    <<"0", "1", "2", "3", "4", "5", "6", "7", "8", "9", "a", "b", "c", "d", "e", "f">>

\* hex(buf), for a buffer of bytes: two lowercase hex digits per byte
Hex(buf) ==
    [j \in 1..(2 * Len(buf)) |->
        LET b == buf[(j + 1) \div 2]
        IN  <<HexDigits[(IF j % 2 = 1 THEN b \div 16 ELSE b % 16) + 1]>>]

\* hex(buf), for the bytes an hkdf call returned
HexDerived(bytes) ==
    [j \in 1..(2 * Len(bytes)) |->
        <<(IF j % 2 = 1 THEN "hi" ELSE "lo"), bytes[(j + 1) \div 2]>>]

\* `${n}`, for an integer n
RECURSIVE Decimal(_)
Decimal(n) ==
    IF n < 0 THEN <<<<"-">>>> \o Decimal(-n)
    ELSE IF n < 10 THEN <<<<HexDigits[n + 1]>>>>
    ELSE Decimal(n \div 10) \o <<<<HexDigits[(n % 10) + 1]>>>>

\* hkdf(km, info, salt, len): len bytes, each a function of the three inputs
\* and its position, different inputs giving different bytes
Hkdf(km, info, salt, len) ==
    [i \in 1..len |-> <<"hkdf", km, info, salt, i>>]

PPID_INFO == "oidc ppid sub"

\* a default seed of 1
ClientSeed_DefaultOne(arg) == IF arg.given THEN arg.value ELSE 1

\* clientSeed = 0: the value of the parameter for the argument passed
ClientSeed(arg) == IF arg.given THEN arg.value ELSE 0

\* a context rounded to the nearest period instead of cut off
TimeBasedContext_Rounded(cfg, clientIdHex, t) ==
    IF clientIdHex \in cfg.rotatingClientIds
    THEN (t + cfg.rotationPeriodMS \div 2) \div cfg.rotationPeriodMS
    ELSE 0

\* a context that never rotates
TimeBasedContext_Never(cfg, clientIdHex, t) == 0

\* a context that rotates for every relying party
TimeBasedContext_Always(cfg, clientIdHex, t) == t \div cfg.rotationPeriodMS

\* a context that is the time itself
TimeBasedContext_NoPeriod(cfg, clientIdHex, t) ==
    IF clientIdHex \in cfg.rotatingClientIds THEN t ELSE 0

\* timeBasedContext, at Date.now() = t
TimeBasedContext(cfg, clientIdHex, t) ==
    IF clientIdHex \in cfg.rotatingClientIds
    THEN t \div cfg.rotationPeriodMS
    ELSE 0

\* the four parts put together with nothing between them
Ikm_Unseparated(clientIdHex, userIdHex, seed, context) ==
    clientIdHex \o userIdHex \o Decimal(seed) \o Decimal(context)

\* keying material that leaves the relying party out
Ikm_NoClient(clientIdHex, userIdHex, seed, context) ==
    userIdHex \o <<<<".">>>> \o Decimal(seed) \o <<<<".">>>> \o Decimal(context)

\* `${clientIdHex}.${userIdHex}.${clientSeed}.${timeBasedContext}`
Ikm(clientIdHex, userIdHex, seed, context) ==
    clientIdHex \o <<<<".">>>> \o userIdHex \o <<<<".">>>> \o Decimal(seed)
        \o <<<<".">>>> \o Decimal(context)

\* a condition that looks at the relying party only
PpidApplies_ClientOnly(cfg, clientIdHex) == clientIdHex \in cfg.enabledClientIds

\* PPID_ENABLED && PPID_CLIENT_IDS.has(clientIdHex)
PpidApplies(cfg, clientIdHex) ==
    cfg.enabled /\ clientIdHex \in cfg.enabledClientIds

\* a derivation that asks for as many bytes as the user id has
GenerateSub_IdLength(cfg, userIdBuf, clientIdBuf, seedArg, t) ==
    LET userIdHex == Hex(userIdBuf)
        clientIdHex == Hex(clientIdBuf)
    IN  IF PpidApplies(cfg, clientIdHex)
        THEN HexDerived(Hkdf(Ikm(clientIdHex, userIdHex, ClientSeed(seedArg),
                                 TimeBasedContext(cfg, clientIdHex, t)),
                             PPID_INFO, cfg.salt, Len(userIdBuf)))
        ELSE userIdHex

\* generateSub(userIdBuf, clientIdBuf, clientSeed), called at Date.now() = t
GenerateSub(cfg, userIdBuf, clientIdBuf, seedArg, t) ==
    LET userIdHex == Hex(userIdBuf)
        clientIdHex == Hex(clientIdBuf)
    IN  IF PpidApplies(cfg, clientIdHex)
        THEN HexDerived(Hkdf(Ikm(clientIdHex, userIdHex, ClientSeed(seedArg),
                                 TimeBasedContext(cfg, clientIdHex, t)),
                             PPID_INFO, cfg.salt, cfg.subLengthBytes))
        ELSE userIdHex

\* the relying parties of the model: RpStable is enabled, RpRotating is
\* enabled and rotating, RpOff is in the rotating set only
RpStable == <<152>>
RpRotating == <<220>>
RpOff == <<26>>

ClientIdBufs == {RpStable, RpRotating, RpOff}

UserIdBufs == {<<222, 173>>, <<190>>}

SeedArgs ==
    {[given |-> FALSE, value |-> 0], [given |-> TRUE, value |-> 0],
     [given |-> TRUE, value |-> 1]}

\* the configurations the module may have been loaded with
PpidConfigs ==
    [enabled : BOOLEAN,
     enabledClientIds : {{Hex(RpStable), Hex(RpRotating)}},
     rotatingClientIds : {{Hex(RpRotating), Hex(RpOff)}},
     rotationPeriodMS : {3600000},
     salt : {"salt"},
     subLengthBytes : {2}]

DefaultPpid == CHOOSE c \in PpidConfigs : ~c.enabled

----------------------------------------------------------------------------
\* no key file exists and no script runs
RingInit ==
    /\ fs = [p \in Paths |-> Absent]
    /\ now = 0
    /\ generated = 0
    /\ script = "none"
    /\ pc = "idle"
    /\ exit = "none"
    /\ key = EmptyObj
    /\ newKey = EmptyObj
    /\ oldKey = EmptyObj
    /\ privKey = EmptyObj
    /\ pubKey = EmptyObj
    /\ pre = [p \in Paths |-> Absent]
    /\ outgoing = EmptyObj
    /\ bootstrapped = FALSE

\* a configured key that is not set (null)
Null == [truthy |-> FALSE, obj |-> EmptyObj]

\* no server process runs
ServerInit ==
    /\ config = [p \in Paths |-> Null]
    /\ KEYS = <<>>
    /\ resp = <<>>
    /\ loaded = [p \in Paths |-> Absent]

\* no library function is called on its own
NoCall == [fn |-> "none"]

CallInit == call = NoCall /\ ret = NoCall

\* the module scripts/gen_keys.js, as an entry of require.cache
GenKeysJs == "gen_keys.js"

\* no module is loaded: require.cache is empty
NoCache == [p \in Paths \cup {GenKeysJs} |-> [loaded |-> FALSE, data |-> EmptyObj]]

Init ==
    /\ RingInit
    /\ ServerInit
    /\ ppid = DefaultPpid
    /\ awaiting = EmptyBag
    /\ issued = EmptyBag
    /\ CallInit
    /\ cache = NoCache

\* the process ends: its locals are gone
Exit(how) ==
    /\ pc' = "idle"
    /\ exit' = how
    /\ key' = EmptyObj
    /\ newKey' = EmptyObj
    /\ oldKey' = EmptyObj
    /\ privKey' = EmptyObj
    /\ pubKey' = EmptyObj

\* the operator starts a script
Start(name) ==
    /\ pc = "idle"
    /\ script' = name
    /\ pre' = fs

\* wall time passes
Tick ==
    /\ now < MaxTicks * TickMs
    /\ now' = now + TickMs
    /\ UNCHANGED <<fs, generated, script, pc, exit, locals, pre, outgoing>>
    /\ UNCHANGED <<bootstrapped, serverVars, ppidVars, callVars, procVars>>

(* A script is a plain process: a signal or a power loss stops it at any     *)
(* statement.  CrashAtStart is a stop before the first key generation or    *)
(* write of the run, Crash one between two statements further on,           *)
(* CrashInWrite one inside a write, CrashAtEnd one after the last write.    *)

Scripts == {"gen_keys", "prepare", "activate", "retire"}

\* a script is started and stopped (kill, power loss) before it has generated
\* a key or written a file: while it loads its modules, at one of the
\* fs.existsSync or require calls of its checks, before or after a failing
\* assert has thrown, or before generatePrivateKey
CrashAtStart ==
    /\ \E name \in Scripts : Start(name)
    /\ Exit("killed")
    /\ UNCHANGED <<fs, now, generated, outgoing>>
    /\ UNCHANGED <<bootstrapped, serverVars, ppidVars, callVars, procVars>>

\* the running script is stopped (kill, power loss) between two statements
Crash ==
    /\ pc # "idle"
    /\ Exit("killed")
    /\ UNCHANGED <<fs, now, generated, script, pre, outgoing>>
    /\ UNCHANGED <<bootstrapped, serverVars, ppidVars, callVars, procVars>>

\* the fs.writeFileSync call the running script is about to make: its path
\* and the record whose text it writes
Writing ==
    CASE pc = "gen_write_key" -> [path |-> keyPath, obj |-> privKey]
      [] pc = "gen_wipe_new" -> [path |-> newKeyPath, obj |-> EmptyObj]
      [] pc = "gen_write_old" -> [path |-> oldKeyPath, obj |-> pubKey]
      [] pc = "prep_write_new" -> [path |-> newKeyPath, obj |-> privKey]
      [] pc = "act_write_old" -> [path |-> oldKeyPath, obj |-> oldKey]
      [] pc = "act_write_key" -> [path |-> keyPath, obj |-> newKey]
      [] pc = "act_wipe_new" -> [path |-> newKeyPath, obj |-> EmptyObj]
      [] pc = "ret_wipe_old" -> [path |-> oldKeyPath, obj |-> EmptyObj]

\* the points of the scripts at which the next statement is a write
WritePcs == {"gen_write_key", "gen_wipe_new", "gen_write_old", "prep_write_new",
             "act_write_old", "act_write_key", "act_wipe_new", "ret_wipe_old"}

\* the points at which the next write is the last one of the script
LastWritePcs == {"gen_write_old", "prep_write_new", "act_wipe_new", "ret_wipe_old"}

\* how a run ends that did not reach the end of its script: by a signal, or
\* by the error of a write that failed part-way (EFBIG, ENOSPC)
Stopped == {"killed", "EFBIG"}

\* the running script is stopped inside fs.writeFileSync, which opens the
\* file with O_TRUNC and then writes the text: the file is left cut
CrashInWrite ==
    /\ pc \in WritePcs
    /\ fs' = WriteFileSyncCut(fs, Writing.path, Writing.obj)
    /\ outgoing' = IF Writing.path = oldKeyPath THEN EmptyObj ELSE outgoing
    /\ \E how \in Stopped : Exit(how)
    /\ UNCHANGED <<now, generated, script, pre>>
    /\ UNCHANGED <<bootstrapped, serverVars, ppidVars, callVars, procVars>>

\* the running script makes its last write and is stopped after it, at the
\* console.log that follows or before the process has ended: the files are
\* as a complete run leaves them, the run did not end by itself
CrashAtEnd ==
    /\ pc \in LastWritePcs
    /\ fs' = WriteFileSync(fs, Writing.path, Writing.obj)
    /\ outgoing' = IF Writing.path = oldKeyPath THEN EmptyObj ELSE outgoing
    /\ bootstrapped' = (bootstrapped \/ pc = "gen_write_old")
    /\ Exit("killed")
    /\ UNCHANGED <<now, generated, script, pre>>
    /\ UNCHANGED <<serverVars, ppidVars, callVars, procVars>>

----------------------------------------------------------------------------
(* scripts/gen_keys.js *)

\* gen_keys.js run as a script from the package root, the directory its
\* relative paths (lines 79-81) are meant for.  Lines 83-91 run when the
\* module loads: any key file exists -> process.exit().  Then line 119 calls
\* main: mkdirSync (line 95, its error swallowed) and line 98.
GenKeysBegin ==
    /\ Start("gen_keys")
    /\ IF ExistsSync(fs, keyPath) \/ ExistsSync(fs, newKeyPath)
            \/ ExistsSync(fs, oldKeyPath)
       THEN /\ Exit("exit")
            /\ UNCHANGED <<fs, now, generated, outgoing>>
       ELSE /\ generated < MaxKeys
            /\ generated' = generated + 1
            /\ privKey' = GeneratePrivateKey(generated + 1, now)
            /\ pc' = "gen_write_key"
            /\ exit' = "running"
            /\ UNCHANGED <<fs, now, key, newKey, oldKey, pubKey, outgoing>>
    /\ UNCHANGED <<bootstrapped, serverVars, ppidVars, callVars, procVars>>

\* line 99
GenKeysWriteKey ==
    /\ pc = "gen_write_key"
    /\ fs' = WriteFileSync(fs, keyPath, privKey)
    /\ pc' = "gen_wipe_new"
    /\ UNCHANGED <<now, generated, script, exit, locals, pre, outgoing>>
    /\ UNCHANGED <<bootstrapped, serverVars, ppidVars, callVars, procVars>>

\* lines 103-104
GenKeysWipeNew ==
    /\ pc = "gen_wipe_new"
    /\ fs' = WriteFileSync(fs, newKeyPath, EmptyObj)
    /\ pc' = "gen_extract"
    /\ UNCHANGED <<now, generated, script, exit, locals, pre, outgoing>>
    /\ UNCHANGED <<bootstrapped, serverVars, ppidVars, callVars, procVars>>

\* line 110: keys.extractPublicKey(keys.generatePrivateKey())
GenKeysExtract ==
    /\ pc = "gen_extract"
    /\ generated < MaxKeys
    /\ generated' = generated + 1
    /\ pubKey' = ExtractPublicKey(GeneratePrivateKey(generated + 1, now))
    /\ pc' = "gen_write_old"
    /\ UNCHANGED <<fs, now, script, exit, key, newKey, oldKey, privKey, pre, outgoing>>
    /\ UNCHANGED <<bootstrapped, serverVars, ppidVars, callVars, procVars>>

\* lines 111-113
GenKeysWriteOld ==
    /\ pc = "gen_write_old"
    /\ fs' = WriteFileSync(fs, oldKeyPath, pubKey)
    /\ Exit("ok")
    /\ bootstrapped' = TRUE
    /\ UNCHANGED <<now, generated, script, pre, outgoing>>
    /\ UNCHANGED <<serverVars, ppidVars, callVars, procVars>>

\* gen_keys.js run as a script from another working directory: lines 79-81
\* then name files under that directory, not the key files the server and
\* the other scripts read.  It exits when it finds one of its files there,
\* throws ENOENT at line 99, with one keypair drawn, when there is no
\* ./fxa-oauth-server there, and else writes its three files there, with
\* two keypairs drawn; or it is stopped, with none, one or two keypairs
\* drawn; or one of its writes fails part-way (EFBIG), that of line 99 or
\* 103 with one keypair drawn, that of line 111 with two.  What that
\* directory holds is not part of the state.
GenKeysElsewhere ==
    /\ Start("gen_keys elsewhere")
    /\ \E out \in {[how |-> "exit", drawn |-> 0], [how |-> "ENOENT", drawn |-> 1],
                    [how |-> "ok", drawn |-> 2]}
                      \cup [how : {"killed"}, drawn : 0..2]
                      \cup [how : {"EFBIG"}, drawn : 1..2] :
          /\ generated + out.drawn <= MaxKeys
          /\ generated' = generated + out.drawn
          /\ Exit(out.how)
    /\ UNCHANGED <<fs, now, outgoing>>
    /\ UNCHANGED <<bootstrapped, serverVars, ppidVars, callVars, procVars>>

----------------------------------------------------------------------------
(* scripts/prepare-new-signing-key.js *)

\* lines 64-77
PrepareBegin ==
    /\ Start("prepare")
    /\ IF RequireThrows(fs, keyPath)
       THEN /\ Exit("SyntaxError")
            /\ UNCHANGED <<fs, now, generated, outgoing>>
       ELSE IF MissingActiveKey(fs)
       THEN /\ Exit("missing active signing key")
            /\ UNCHANGED <<fs, now, generated, outgoing>>
       ELSE IF RequireThrows(fs, newKeyPath)
       THEN /\ Exit("SyntaxError")
            /\ UNCHANGED <<fs, now, generated, outgoing>>
       ELSE IF NewKeyAlreadyExists(fs)
       THEN /\ Exit("new key alreayd exists; perhaps you meant to activate it?")
            /\ UNCHANGED <<fs, now, generated, outgoing>>
       ELSE /\ generated < MaxKeys
            /\ generated' = generated + 1
            /\ privKey' = GeneratePrivateKey(generated + 1, now)
            /\ pc' = "prep_write_new"
            /\ exit' = "running"
            /\ UNCHANGED <<fs, now, key, newKey, oldKey, pubKey, outgoing>>
    /\ UNCHANGED <<bootstrapped, serverVars, ppidVars, callVars, procVars>>

\* the generated key written over the active key
PrepareWriteNew_ToKeyPath ==
    /\ pc = "prep_write_new"
    /\ fs' = WriteFileSync(fs, keyPath, privKey)
    /\ Exit("ok")
    /\ UNCHANGED <<now, generated, script, pre, outgoing>>
    /\ UNCHANGED <<bootstrapped, serverVars, ppidVars, callVars, procVars>>

\* the public projection of the generated key stored as the new key
PrepareWriteNew_PublicOnly ==
    /\ pc = "prep_write_new"
    /\ fs' = WriteFileSync(fs, newKeyPath, ExtractPublicKey(privKey))
    /\ Exit("ok")
    /\ UNCHANGED <<now, generated, script, pre, outgoing>>
    /\ UNCHANGED <<bootstrapped, serverVars, ppidVars, callVars, procVars>>

\* lines 78-79
PrepareWriteNew ==
    /\ pc = "prep_write_new"
    /\ fs' = WriteFileSync(fs, newKeyPath, privKey)
    /\ Exit("ok")
    /\ UNCHANGED <<now, generated, script, pre, outgoing>>
    /\ UNCHANGED <<bootstrapped, serverVars, ppidVars, callVars, procVars>>

----------------------------------------------------------------------------
(* scripts/activate-new-signing-key.js *)

\* an activate that also asserts that the new key is not the active key
ActivateBegin_ChecksDistinct ==
    /\ Start("activate")
    /\ IF RequireThrows(fs, keyPath)
       THEN /\ Exit("SyntaxError")
            /\ UNCHANGED <<fs, now, generated, outgoing>>
       ELSE IF MissingActiveKey(fs)
       THEN /\ Exit("missing active signing key")
            /\ UNCHANGED <<fs, now, generated, outgoing>>
       ELSE IF RequireThrows(fs, newKeyPath)
       THEN /\ Exit("SyntaxError")
            /\ UNCHANGED <<fs, now, generated, outgoing>>
       ELSE IF MissingNewKey(fs)
       THEN /\ Exit("missing new signing key")
            /\ UNCHANGED <<fs, now, generated, outgoing>>
       ELSE IF Require(fs, keyPath) = Require(fs, newKeyPath)
       THEN /\ Exit("new signing key is already active")
            /\ UNCHANGED <<fs, now, generated, outgoing>>
       ELSE /\ key' = Require(fs, keyPath)
            /\ newKey' = Require(fs, newKeyPath)
            /\ oldKey' = ExtractPublicKey(Require(fs, keyPath))
            /\ pc' = "act_write_old"
            /\ exit' = "running"
            /\ UNCHANGED <<fs, now, generated, privKey, pubKey, outgoing>>
    /\ UNCHANGED <<bootstrapped, serverVars, ppidVars, callVars, procVars>>

\* an activate that also asserts that there is no old key left
ActivateBegin_NeedsEmptyOld ==
    /\ Start("activate")
    /\ IF RequireThrows(fs, keyPath)
       THEN /\ Exit("SyntaxError")
            /\ UNCHANGED <<fs, now, generated, outgoing>>
       ELSE IF MissingActiveKey(fs)
       THEN /\ Exit("missing active signing key")
            /\ UNCHANGED <<fs, now, generated, outgoing>>
       ELSE IF RequireThrows(fs, newKeyPath)
       THEN /\ Exit("SyntaxError")
            /\ UNCHANGED <<fs, now, generated, outgoing>>
       ELSE IF MissingNewKey(fs)
       THEN /\ Exit("missing new signing key")
            /\ UNCHANGED <<fs, now, generated, outgoing>>
       ELSE IF HasKey(fs, oldKeyPath)
       THEN /\ Exit("old signing key not retired")
            /\ UNCHANGED <<fs, now, generated, outgoing>>
       ELSE /\ key' = Require(fs, keyPath)
            /\ newKey' = Require(fs, newKeyPath)
            /\ oldKey' = ExtractPublicKey(Require(fs, keyPath))
            /\ pc' = "act_write_old"
            /\ exit' = "running"
            /\ UNCHANGED <<fs, now, generated, privKey, pubKey, outgoing>>
    /\ UNCHANGED <<bootstrapped, serverVars, ppidVars, callVars, procVars>>

\* lines 27-35
ActivateBegin ==
    /\ Start("activate")
    /\ IF RequireThrows(fs, keyPath)
       THEN /\ Exit("SyntaxError")
            /\ UNCHANGED <<fs, now, generated, outgoing>>
       ELSE IF MissingActiveKey(fs)
       THEN /\ Exit("missing active signing key")
            /\ UNCHANGED <<fs, now, generated, outgoing>>
       ELSE IF RequireThrows(fs, newKeyPath)
       THEN /\ Exit("SyntaxError")
            /\ UNCHANGED <<fs, now, generated, outgoing>>
       ELSE IF MissingNewKey(fs)
       THEN /\ Exit("missing new signing key")
            /\ UNCHANGED <<fs, now, generated, outgoing>>
       ELSE /\ key' = Require(fs, keyPath)
            /\ newKey' = Require(fs, newKeyPath)
            /\ oldKey' = ExtractPublicKey(Require(fs, keyPath))
            /\ pc' = "act_write_old"
            /\ exit' = "running"
            /\ UNCHANGED <<fs, now, generated, privKey, pubKey, outgoing>>
    /\ UNCHANGED <<bootstrapped, serverVars, ppidVars, callVars, procVars>>

\* the active key copied to oldKey.json without the projection
ActivateWriteOld_FullKey ==
    /\ pc = "act_write_old"
    /\ fs' = WriteFileSync(fs, oldKeyPath, key)
    /\ pc' = "act_write_key"
    /\ outgoing' = EmptyObj
    /\ UNCHANGED <<now, generated, script, exit, locals, pre>>
    /\ UNCHANGED <<bootstrapped, serverVars, ppidVars, callVars, procVars>>

\* the three writes in another order: newKey.json wiped first
ActivateWriteOld_WipesNew ==
    /\ pc = "act_write_old"
    /\ fs' = WriteFileSync(fs, newKeyPath, EmptyObj)
    /\ pc' = "act_write_key"
    /\ outgoing' = EmptyObj
    /\ UNCHANGED <<now, generated, script, exit, locals, pre>>
    /\ UNCHANGED <<bootstrapped, serverVars, ppidVars, callVars, procVars>>

\* lines 36-37
ActivateWriteOld ==
    /\ pc = "act_write_old"
    /\ fs' = WriteFileSync(fs, oldKeyPath, oldKey)
    /\ pc' = "act_write_key"
    /\ outgoing' = EmptyObj
    /\ UNCHANGED <<now, generated, script, exit, locals, pre>>
    /\ UNCHANGED <<bootstrapped, serverVars, ppidVars, callVars, procVars>>

\* lines 39-40
ActivateWriteKey ==
    /\ pc = "act_write_key"
    /\ fs' = WriteFileSync(fs, keyPath, newKey)
    /\ pc' = "act_wipe_new"
    /\ UNCHANGED <<now, generated, script, exit, locals, pre, outgoing>>
    /\ UNCHANGED <<bootstrapped, serverVars, ppidVars, callVars, procVars>>

\* lines 42-44
ActivateWipeNew ==
    /\ pc = "act_wipe_new"
    /\ fs' = WriteFileSync(fs, newKeyPath, EmptyObj)
    /\ outgoing' = key
    /\ Exit("ok")
    /\ UNCHANGED <<now, generated, script, pre>>
    /\ UNCHANGED <<bootstrapped, serverVars, ppidVars, callVars, procVars>>

----------------------------------------------------------------------------
(* scripts/retire-old-signing-key.js *)

\* a retire that also asserts that there is an old key to wipe
RetireBegin_NeedsOld ==
    /\ Start("retire")
    /\ IF RequireThrows(fs, keyPath)
       THEN /\ Exit("SyntaxError")
            /\ UNCHANGED <<fs, now, generated, outgoing>>
       ELSE IF MissingActiveKey(fs)
       THEN /\ Exit("missing active signing key")
            /\ UNCHANGED <<fs, now, generated, outgoing>>
       ELSE IF ~HasKey(fs, oldKeyPath)
       THEN /\ Exit("missing old signing key")
            /\ UNCHANGED <<fs, now, generated, outgoing>>
       ELSE /\ pc' = "ret_wipe_old"
            /\ exit' = "running"
            /\ UNCHANGED <<fs, now, generated, locals, outgoing>>
    /\ UNCHANGED <<bootstrapped, serverVars, ppidVars, callVars, procVars>>

\* lines 24-28
RetireBegin ==
    /\ Start("retire")
    /\ IF RequireThrows(fs, keyPath)
       THEN /\ Exit("SyntaxError")
            /\ UNCHANGED <<fs, now, generated, outgoing>>
       ELSE IF MissingActiveKey(fs)
       THEN /\ Exit("missing active signing key")
            /\ UNCHANGED <<fs, now, generated, outgoing>>
       ELSE /\ pc' = "ret_wipe_old"
            /\ exit' = "running"
            /\ UNCHANGED <<fs, now, generated, locals, outgoing>>
    /\ UNCHANGED <<bootstrapped, serverVars, ppidVars, callVars, procVars>>

\* the wipe aimed at newKey.json
RetireWipeOld_NewKeyPath ==
    /\ pc = "ret_wipe_old"
    /\ fs' = WriteFileSync(fs, newKeyPath, EmptyObj)
    /\ outgoing' = EmptyObj
    /\ Exit("ok")
    /\ UNCHANGED <<now, generated, script, pre>>
    /\ UNCHANGED <<bootstrapped, serverVars, ppidVars, callVars, procVars>>

\* lines 30-32
RetireWipeOld ==
    /\ pc = "ret_wipe_old"
    /\ fs' = WriteFileSync(fs, oldKeyPath, EmptyObj)
    /\ outgoing' = EmptyObj
    /\ Exit("ok")
    /\ UNCHANGED <<now, generated, script, pre>>
    /\ UNCHANGED <<bootstrapped, serverVars, ppidVars, callVars, procVars>>

----------------------------------------------------------------------------
(* The server process: configuration and lib/routes/jwks.js *)

\* a server process starts: it reads the three keys into its configuration
\* (refusing to start without an active key) and loads the route module,
\* whose KEYS is computed then
ServerStart ==
    /\ HasKey(fs, keyPath)
    /\ \A p \in Paths : ~RequireThrows(fs, p)
    /\ config' = [p \in Paths |-> ConfigGet(fs, p)]
    /\ KEYS' = Keys(ConfigGet(fs, keyPath), ConfigGet(fs, newKeyPath),
                    ConfigGet(fs, oldKeyPath))
    /\ resp' = <<>>
    /\ loaded' = fs
    /\ UNCHANGED <<ringVars, ppidVars, callVars, procVars>>

\* a handler that builds the key set from the files at each request
Jwks_ReadsRing ==
    /\ KEYS # <<>>
    /\ resp' = Publish(fs)
    /\ UNCHANGED <<config, KEYS, loaded>>
    /\ UNCHANGED <<ringVars, ppidVars, callVars, procVars>>

\* handler: async function jwks() { return KEYS; }
Jwks ==
    /\ KEYS # <<>>
    /\ resp' = KEYS
    /\ UNCHANGED <<config, KEYS, loaded>>
    /\ UNCHANGED <<ringVars, ppidVars, callVars, procVars>>

----------------------------------------------------------------------------
(* Calls of generateSub *)

(* generateSub is an async function.  Its body runs at the call up to the   *)
(* await of line 34: Date.now() is read (line 31) and hkdf is called with   *)
(* the keying material built from it.  The caller gets the identifier when  *)
(* the promise of hkdf has resolved, and the clock may have moved by then.  *)
(* The branch of line 42 awaits nothing.                                    *)

\* the token issuer calls generateSub for some user, relying party and seed:
\* lines 23-35 run, or lines 23-28 and 42
GenerateSubCall ==
    /\ BagCardinality(issued) + BagCardinality(awaiting) < MaxCalls
    /\ \E u \in UserIdBufs, c \in ClientIdBufs, s \in SeedArgs :
          LET e == [userIdBuf |-> u, clientIdBuf |-> c, seedArg |-> s, at |-> now]
          IN  IF PpidApplies(ppid, Hex(c))
              THEN /\ awaiting' = awaiting (+) SetToBag({e})
                   /\ UNCHANGED issued
              ELSE /\ issued' = issued (+) SetToBag(
                          {[userIdBuf |-> u, clientIdBuf |-> c, seedArg |-> s,
                            at |-> now, returnedAt |-> now,
                            sub |-> GenerateSub(ppid, u, c, s, now)]})
                   /\ UNCHANGED awaiting
    /\ UNCHANGED <<ppid, ringVars, serverVars, callVars, procVars>>

\* hkdf resolves for one of the pending calls: that call returns the
\* identifier derived from the keying material of the time it was made at
\* (lines 33-40); the other pending calls, identical ones included, stay
\* pending
GenerateSubReturn ==
    /\ \E e \in BagToSet(awaiting) :
          /\ awaiting' = awaiting (-) SetToBag({e})
          /\ issued' = issued (+) SetToBag(
                 {[userIdBuf |-> e.userIdBuf, clientIdBuf |-> e.clientIdBuf,
                   seedArg |-> e.seedArg, at |-> e.at, returnedAt |-> now,
                   sub |-> GenerateSub(ppid, e.userIdBuf, e.clientIdBuf,
                                       e.seedArg, e.at)]})
    /\ UNCHANGED <<ppid, ringVars, serverVars, callVars, procVars>>

----------------------------------------------------------------------------
(* Library functions called on their own, as the unit tests call them *)

\* instants at which a key is generated: a grid of ten minutes
MaxInstants == 13
GridMs == 600000

Instants == {k * GridMs : k \in 0..MaxInstants}

\* key records: generated keys, their projections, the records of the jwks
\* route test, a record with an alg and a use of its own, and the empty record
SampleRecords ==
    {GeneratePrivateKey(1, 0), GeneratePrivateKey(2, TickMs),
     ExtractPublicKey(GeneratePrivateKey(1, 0)),
     ExtractPublicKey(GeneratePrivateKey(2, TickMs)),
     ("kty" :> <<"foo">>) @@ ("kid" :> <<"bar">>) @@ ("n" :> <<"N">>)
        @@ ("e" :> <<"E">>),
     ("kty" :> <<"foo">>) @@ ("kid" :> <<"bar">>) @@ ("n" :> <<"N">>)
        @@ ("e" :> <<"E">>) @@ ("d" :> <<"D">>),
     ("kid" :> <<"new">>),
     ("kid" :> <<"old">>),
     ("kty" :> <<"EC">>) @@ ("kid" :> <<"ec">>) @@ ("alg" :> <<"ES256">>)
        @@ ("use" :> <<"enc">>) @@ ("d" :> <<"D">>),
     EmptyObj}

\* what config.get may return for a key: null or a record
ConfigValues == {Null} \cup {[truthy |-> TRUE, obj |-> o] : o \in SampleRecords}

\* generateSub on identifiers of one and two bytes, seeds and times whose
\* digits could run into each other, every relying party enabled and rotating
IkmClientIdBufs == {<<171>>, <<171, 205>>}

IkmUserIdBufs == {<<205, 16>>, <<16>>}

IkmSeedArgs ==
    {[given |-> FALSE, value |-> 0], [given |-> TRUE, value |-> 1],
     [given |-> TRUE, value |-> 11]}

IkmConfig ==
    [enabled |-> TRUE,
     enabledClientIds |-> {Hex(c) : c \in IkmClientIdBufs},
     rotatingClientIds |-> {Hex(c) : c \in IkmClientIdBufs},
     rotationPeriodMS |-> 3600000,
     salt |-> "salt",
     subLengthBytes |-> 2]

IkmInstants == {0, IkmConfig.rotationPeriodMS, 10 * IkmConfig.rotationPeriodMS}

GenerateSubInputs ==
    {[fn |-> "generateSub", userIdBuf |-> u, clientIdBuf |-> c, seedArg |-> a,
      at |-> t] :
        u \in IkmUserIdBufs, c \in IkmClientIdBufs, a \in IkmSeedArgs,
        t \in IkmInstants}

CallInputs ==
    {[fn |-> "KEYS", privKey |-> a, newPrivKey |-> b, oldPubKey |-> c] :
        a \in ConfigValues \ {Null}, b \in ConfigValues, c \in ConfigValues}
    \cup {[fn |-> "extractPublicKey", privKey |-> o] : o \in SampleRecords}
    \cup {[fn |-> "generatePrivateKey", kp |-> k, at |-> t] :
            k \in 1..2, t \in Instants}
    \cup GenerateSubInputs

\* the jwks route module is loaded with the configured keys call names
CallKeys ==
    /\ call.fn = "KEYS" /\ ret = NoCall
    /\ ret' = [val |-> Keys(call.privKey, call.newPrivKey, call.oldPubKey)]
    /\ UNCHANGED <<call, ringVars, serverVars, ppidVars, procVars>>

\* keys.extractPublicKey(call.privKey); arg is the argument after the call
CallExtractPublicKey ==
    /\ call.fn = "extractPublicKey" /\ ret = NoCall
    /\ ret' = [val |-> ExtractPublicKey(call.privKey), arg |-> call.privKey]
    /\ UNCHANGED <<call, ringVars, serverVars, ppidVars, procVars>>

\* keys.generatePrivateKey() at the instant call.at, drawing keypair call.kp
CallGeneratePrivateKey ==
    /\ call.fn = "generatePrivateKey" /\ ret = NoCall
    /\ ret' = [val |-> GeneratePrivateKey(call.kp, call.at)]
    /\ UNCHANGED <<call, ringVars, serverVars, ppidVars, procVars>>

\* a generateSub call that awaits hkdf
Awaiting == [fn |-> "awaiting"]

\* generateSub(call.userIdBuf, call.clientIdBuf[, seed]) at Date.now() =
\* call.at: every relying party of IkmConfig is enabled, so the call builds
\* its keying material, calls hkdf and awaits it (lines 23-35)
CallGenerateSub ==
    /\ call.fn = "generateSub" /\ ret = NoCall
    /\ ret' = IF PpidApplies(IkmConfig, Hex(call.clientIdBuf))
              THEN Awaiting
              ELSE [val |-> GenerateSub(IkmConfig, call.userIdBuf,
                                        call.clientIdBuf, call.seedArg, call.at),
                    returnedAt |-> call.at]
    /\ UNCHANGED <<call, ringVars, serverVars, ppidVars, procVars>>

\* hkdf resolves at some instant not before the call: the call returns the
\* identifier derived from the keying material of call.at (lines 33-40)
CallGenerateSubReturn ==
    /\ call.fn = "generateSub" /\ ret = Awaiting
    /\ \E t \in IkmInstants :
          /\ t >= call.at
          /\ ret' = [val |-> GenerateSub(IkmConfig, call.userIdBuf,
                                         call.clientIdBuf, call.seedArg, call.at),
                     returnedAt |-> t]
    /\ UNCHANGED <<call, ringVars, serverVars, ppidVars, procVars>>

----------------------------------------------------------------------------
Next ==
    \/ Tick
    \/ CrashAtStart
    \/ Crash
    \/ CrashInWrite
    \/ CrashAtEnd
    \/ GenKeysBegin
    \/ GenKeysElsewhere
    \/ GenKeysWriteKey
    \/ GenKeysWipeNew
    \/ GenKeysExtract
    \/ GenKeysWriteOld
    \/ PrepareBegin
    \/ PrepareWriteNew
    \/ ActivateBegin
    \/ ActivateWriteOld
    \/ ActivateWriteKey
    \/ ActivateWipeNew
    \/ RetireBegin
    \/ RetireWipeOld

Spec == Init /\ [][Next]_vars

\* the ring scripts, and server processes started and queried at any point
NextJwks ==
    \/ CrashAtStart
    \/ Crash
    \/ CrashInWrite
    \/ CrashAtEnd
    \/ GenKeysBegin
    \/ GenKeysElsewhere
    \/ GenKeysWriteKey
    \/ GenKeysWipeNew
    \/ GenKeysExtract
    \/ GenKeysWriteOld
    \/ PrepareBegin
    \/ PrepareWriteNew
    \/ ActivateBegin
    \/ ActivateWriteOld
    \/ ActivateWriteKey
    \/ ActivateWipeNew
    \/ RetireBegin
    \/ RetireWipeOld
    \/ ServerStart
    \/ Jwks

SpecJwks == Init /\ [][NextJwks]_vars

\* generateSub, loaded with any of the configurations, called as time passes
InitPpid ==
    /\ RingInit
    /\ ServerInit
    /\ ppid \in PpidConfigs
    /\ awaiting = EmptyBag
    /\ issued = EmptyBag
    /\ CallInit
    /\ cache = NoCache

NextPpid ==
    \/ Tick
    \/ GenerateSubCall
    \/ GenerateSubReturn

SpecPpid == InitPpid /\ [][NextPpid]_vars

\* one library function called once on arguments drawn from the samples
InitCalls ==
    /\ RingInit
    /\ ServerInit
    /\ ppid = DefaultPpid
    /\ awaiting = EmptyBag
    /\ issued = EmptyBag
    /\ call \in CallInputs
    /\ ret = NoCall
    /\ cache = NoCache

NextCalls ==
    \/ CallKeys
    \/ CallExtractPublicKey
    \/ CallGeneratePrivateKey
    \/ CallGenerateSub
    \/ CallGenerateSubReturn

SpecCalls == InitCalls /\ [][NextCalls]_vars

\* the three transition scripts run on key files as an operator may have
\* left them: each file missing, holding the empty record, or holding a key
RingSamples ==
    [Paths -> {Absent, [exists |-> TRUE, cut |-> FALSE, data |-> EmptyObj]}
              \cup {[exists |-> TRUE, cut |-> FALSE, data |-> o] :
                        o \in {GeneratePrivateKey(1, 0), GeneratePrivateKey(2, 0),
                               ExtractPublicKey(GeneratePrivateKey(3, 0))}}]

\* files the scripts could have written there: keys in key.json and
\* newKey.json are full, a key in oldKey.json is public-only
RingFiles ==
    {f \in RingSamples :
        /\ Require(f, keyPath) \in {EmptyObj, GeneratePrivateKey(1, 0)}
        /\ Require(f, newKeyPath) \in {EmptyObj, GeneratePrivateKey(2, 0)}
        /\ Require(f, oldKeyPath)
              \in {EmptyObj, ExtractPublicKey(GeneratePrivateKey(3, 0))}}

InitRings ==
    /\ fs \in RingFiles
    /\ now = 0
    /\ generated = 3
    /\ script = "none"
    /\ pc = "idle"
    /\ exit = "none"
    /\ key = EmptyObj
    /\ newKey = EmptyObj
    /\ oldKey = EmptyObj
    /\ privKey = EmptyObj
    /\ pubKey = EmptyObj
    /\ pre = fs
    /\ outgoing = EmptyObj
    /\ bootstrapped = \A p \in Paths : ExistsSync(fs, p)
    /\ ServerInit
    /\ ppid = DefaultPpid
    /\ awaiting = EmptyBag
    /\ issued = EmptyBag
    /\ CallInit
    /\ cache = NoCache

NextRings ==
    \/ PrepareBegin
    \/ PrepareWriteNew
    \/ ActivateBegin
    \/ ActivateWriteOld
    \/ ActivateWriteKey
    \/ ActivateWipeNew
    \/ RetireBegin
    \/ RetireWipeOld

SpecRings == InitRings /\ [][NextRings]_vars

----------------------------------------------------------------------------
(* The exported mains called inside one process *)
(* A script exports its main; a process that requires the scripts and calls  *)
(* the mains one after another keeps one require.cache, so require(path) of  *)
(* a key file returns the content the file had when the process first        *)
(* required it.  A main runs to its end before the next is called.           *)

\* require.cache after require(p): the file is parsed on the first call only
Load(c, f, p) ==
    IF c[p].loaded THEN c
    ELSE [c EXCEPT ![p] = [loaded |-> TRUE, data |-> f[p].data]]

\* require.cache after assert(fs.existsSync(keyPath)) and require(keyPath)
LoadActive(c, f) == IF ExistsSync(f, keyPath) THEN Load(c, f, keyPath) ELSE c

\* the two asserts on the active key pass
ActiveOk(c, f) == ExistsSync(f, keyPath) /\ NonEmpty(LoadActive(c, f)[keyPath].data)

\* require.cache after fs.existsSync(newKeyPath) && require(newKeyPath)
LoadNew(c, f) == IF ExistsSync(f, newKeyPath) THEN Load(c, f, newKeyPath) ELSE c

\* fs.existsSync(newKeyPath) && Object.keys(require(newKeyPath)).length > 0
NewOk(c, f) == ExistsSync(f, newKeyPath) /\ NonEmpty(LoadNew(c, f)[newKeyPath].data)

\* a main returns or throws: the outcome, with no step left to take
Return(name, how) ==
    /\ pc = "idle"
    /\ script' = name
    /\ pre' = fs
    /\ exit' = how
    /\ UNCHANGED <<pc, now, locals, bootstrapped>>
    /\ UNCHANGED <<serverVars, ppidVars, callVars>>

\* main of prepare-new-signing-key.js, lines 63-80
PrepareMain ==
    IF ~ActiveOk(cache, fs)
    THEN /\ Return("prepare", "missing active signing key")
         /\ cache' = LoadActive(cache, fs)
         /\ UNCHANGED <<fs, generated, outgoing>>
    ELSE IF NewOk(LoadActive(cache, fs), fs)
    THEN /\ Return("prepare",
                   "new key alreayd exists; perhaps you meant to activate it?")
         /\ cache' = LoadNew(LoadActive(cache, fs), fs)
         /\ UNCHANGED <<fs, generated, outgoing>>
    ELSE /\ generated < MaxKeys
         /\ Return("prepare", "ok")
         /\ cache' = LoadNew(LoadActive(cache, fs), fs)
         /\ generated' = generated + 1
         /\ fs' = WriteFileSync(fs, newKeyPath,
                                GeneratePrivateKey(generated + 1, now))
         /\ UNCHANGED outgoing

\* main of activate-new-signing-key.js, lines 26-44
ActivateMain ==
    IF ~ActiveOk(cache, fs)
    THEN /\ Return("activate", "missing active signing key")
         /\ cache' = LoadActive(cache, fs)
         /\ UNCHANGED <<fs, generated, outgoing>>
    ELSE IF ~NewOk(LoadActive(cache, fs), fs)
    THEN /\ Return("activate", "missing new signing key")
         /\ cache' = LoadNew(LoadActive(cache, fs), fs)
         /\ UNCHANGED <<fs, generated, outgoing>>
    ELSE LET c == LoadNew(LoadActive(cache, fs), fs)
         IN  /\ Return("activate", "ok")
             /\ cache' = c
             /\ fs' = WriteFileSync(
                          WriteFileSync(
                              WriteFileSync(fs, oldKeyPath,
                                            ExtractPublicKey(c[keyPath].data)),
                              keyPath, c[newKeyPath].data),
                          newKeyPath, EmptyObj)
             /\ outgoing' = c[keyPath].data
             /\ UNCHANGED generated

\* main of retire-old-signing-key.js, lines 23-32
RetireMain ==
    IF ~ActiveOk(cache, fs)
    THEN /\ Return("retire", "missing active signing key")
         /\ cache' = LoadActive(cache, fs)
         /\ UNCHANGED <<fs, generated, outgoing>>
    ELSE /\ Return("retire", "ok")
         /\ cache' = LoadActive(cache, fs)
         /\ fs' = WriteFileSync(fs, oldKeyPath, EmptyObj)
         /\ outgoing' = EmptyObj
         /\ UNCHANGED generated

\* the process requires scripts/gen_keys.js (from the package root): lines
\* 83-91 run once, at this load.  With a key file there process.exit() ends
\* the process, and whatever runs next is another process; else the module
\* is loaded and its main is exported (line 116).
RequireGenKeys ==
    /\ pc = "idle"
    /\ ~cache[GenKeysJs].loaded
    /\ IF \E p \in Paths : ExistsSync(fs, p)
       THEN /\ Return("gen_keys", "exit")
            /\ cache' = NoCache
       ELSE /\ cache' = [cache EXCEPT ![GenKeysJs].loaded = TRUE]
            /\ UNCHANGED <<script, pre, exit, pc, now, locals, bootstrapped>>
            /\ UNCHANGED <<serverVars, ppidVars, callVars>>
    /\ UNCHANGED <<fs, generated, outgoing>>

\* main of gen_keys.js, lines 93-114, called in the process that loaded the
\* module: it looks at no file and writes the three
GenKeysMain ==
    /\ cache[GenKeysJs].loaded
    /\ generated + 2 <= MaxKeys
    /\ pc = "idle"
    /\ script' = "gen_keys"
    /\ pre' = fs
    /\ exit' = "ok"
    /\ bootstrapped' = TRUE
    /\ UNCHANGED <<pc, now, locals>>
    /\ UNCHANGED <<serverVars, ppidVars, callVars>>
    /\ generated' = generated + 2
    /\ fs' = WriteFileSync(
                 WriteFileSync(
                     WriteFileSync(fs, keyPath,
                                   GeneratePrivateKey(generated + 1, now)),
                     newKeyPath, EmptyObj),
                 oldKeyPath,
                 ExtractPublicKey(GeneratePrivateKey(generated + 2, now)))
    /\ outgoing' = EmptyObj
    /\ UNCHANGED cache

\* the process ends and another is started: nothing is cached in it
NewProcess ==
    /\ pc = "idle"
    /\ cache # NoCache
    /\ cache' = NoCache
    /\ UNCHANGED <<ringVars, serverVars, ppidVars, callVars>>

\* a process calling the mains, started on key files as InitRings has them;
\* where there is no key file no keypair has been drawn yet
InitProc ==
    /\ fs \in RingFiles
    /\ now = 0
    /\ generated = IF \A p \in Paths : ~ExistsSync(fs, p) THEN 0 ELSE 3
    /\ script = "none"
    /\ pc = "idle"
    /\ exit = "none"
    /\ key = EmptyObj
    /\ newKey = EmptyObj
    /\ oldKey = EmptyObj
    /\ privKey = EmptyObj
    /\ pubKey = EmptyObj
    /\ pre = fs
    /\ outgoing = EmptyObj
    /\ bootstrapped = \A p \in Paths : ExistsSync(fs, p)
    /\ ServerInit
    /\ ppid = DefaultPpid
    /\ awaiting = EmptyBag
    /\ issued = EmptyBag
    /\ CallInit
    /\ cache = NoCache

NextProc ==
    \/ RequireGenKeys
    \/ GenKeysMain
    \/ PrepareMain
    \/ ActivateMain
    \/ RetireMain
    \/ NewProcess

SpecProc == InitProc /\ [][NextProc]_vars

----------------------------------------------------------------------------
(* Vocabulary of the properties *)

FullFields == {"kty", "kid", "fxa-createdAt", "n", "e"} \cup PrivateFields

\* a fully-formed private key record
IsFullKey(o) == DOMAIN o = FullFields /\ \A f \in FullFields : o[f] # Undefined

\* a file holding the record o
File(o) == [exists |-> TRUE, cut |-> FALSE, data |-> o]

ActiveIsFull(f) == ExistsSync(f, keyPath) /\ IsFullKey(Require(f, keyPath))

\* the slot is empty: the file is missing or holds the empty record
NoRecord(f, p) == ~ExistsSync(f, p) \/ (~f[p].cut /\ ~NonEmpty(f[p].data))

\* every key file that is there parses, so a server process can load them
Loadable(f) == \A p \in Paths : ~RequireThrows(f, p)

Transitions == {"prepare", "activate", "retire"}

\* the script ran to its end: it failed an assert or returned, and was not stopped
Finished(name) == script = name /\ pc = "idle" /\ exit \notin Stopped

\* b is the ring a complete transition `name` makes of the ring a
IsPost(name, a, b) ==
    CASE name = "activate" ->
            /\ b[keyPath] = a[newKeyPath]
            /\ b[newKeyPath] = File(EmptyObj)
            /\ b[oldKeyPath] = File(ExtractPublicKey(Require(a, keyPath)))
      [] name = "prepare" ->
            /\ b[keyPath] = a[keyPath]
            /\ b[oldKeyPath] = a[oldKeyPath]
            /\ ExistsSync(b, newKeyPath) /\ IsFullKey(Require(b, newKeyPath))
      [] name = "retire" ->
            /\ b[keyPath] = a[keyPath]
            /\ b[newKeyPath] = a[newKeyPath]
            /\ b[oldKeyPath] = File(EmptyObj)
      [] OTHER -> FALSE

----------------------------------------------------------------------------
(* Properties *)

\* C1: an activate that runs to its end on a ring with a non-empty active and
\* a non-empty pending key succeeds and leaves active equal to the former
\* pending record, retiring equal to extractPublicKey of the former active
\* record, and pending equal to the empty record.
C1_ActivateMovesKeys ==
    (Finished("activate") /\ HasKey(pre, keyPath) /\ HasKey(pre, newKeyPath)) =>
        /\ exit = "ok"
        /\ fs[keyPath] = pre[newKeyPath]
        /\ fs[oldKeyPath] = File(ExtractPublicKey(Require(pre, keyPath)))
        /\ fs[newKeyPath] = File(EmptyObj)

C1_Witness ==
    /\ Finished("activate") /\ exit = "ok"
    /\ HasKey(pre, oldKeyPath)
    /\ fs[keyPath] = pre[newKeyPath]

\* C2: at every point of a prepare, activate or retire, also when the script
\* is stopped there, the three persisted files are either all as they were
\* when the script started or all as the complete transition leaves them.
C2_AtomicTransitions ==
    script \in Transitions => (fs = pre \/ IsPost(script, pre, fs))

\* C3: an activate on a ring whose pending file is missing or holds the empty
\* record never gets to a write, wherever it is stopped: at none of its
\* points is a write the next statement and the three files are as they
\* were.  When it runs to its end, it ends with 'missing new signing key'
\* ('missing active signing key' when there is no active key either; when
\* key.json is cut the error is the SyntaxError of require(keyPath)).
C3_ActivateWithoutPendingFails ==
    /\ (script = "activate" /\ NoRecord(pre, newKeyPath)) =>
          /\ pc \notin WritePcs
          /\ fs = pre
    /\ (Finished("activate") /\ NoRecord(pre, newKeyPath)) =>
          exit = (IF RequireThrows(pre, keyPath) THEN "SyntaxError"
                  ELSE IF HasKey(pre, keyPath) THEN "missing new signing key"
                  ELSE "missing active signing key")

C3_Witness ==
    /\ Finished("activate") /\ exit = "missing new signing key"
    /\ pre[newKeyPath] = File(EmptyObj)
    /\ HasKey(pre, oldKeyPath)
    /\ fs = pre

\* C4: a prepare on a ring whose pending file holds a key never gets to a
\* write, wherever it is stopped: at none of its points is a write the next
\* statement, and the three files, the pending key among them, are as they
\* were.  When it runs to its end,
\* it ends with the 'new key alreayd exists' error ('missing active signing
\* key' or the SyntaxError of require(keyPath) when there is no active key to
\* read).
C4_PrepareWithPendingFails ==
    /\ (script = "prepare" /\ HasKey(pre, newKeyPath)) =>
          /\ pc \notin WritePcs
          /\ fs = pre
    /\ (Finished("prepare") /\ HasKey(pre, newKeyPath)) =>
          exit = (IF RequireThrows(pre, keyPath) THEN "SyntaxError"
                  ELSE IF HasKey(pre, keyPath)
                  THEN "new key alreayd exists; perhaps you meant to activate it?"
                  ELSE "missing active signing key")

C4_Witness ==
    /\ Finished("prepare")
    /\ exit = "new key alreayd exists; perhaps you meant to activate it?"
    /\ IsFullKey(Require(pre, newKeyPath))
    /\ fs[newKeyPath] = pre[newKeyPath]

\* C5: a prepare that runs to its end on a ring with a non-empty active key
\* and an empty or missing pending file succeeds; pending then holds the full
\* key of the keypair generated last, whose kid no file held before, and the
\* active and retiring files are unchanged at every point of the run.
C5_PrepareStoresFreshKey ==
    /\ script = "prepare" =>
          fs[keyPath] = pre[keyPath] /\ fs[oldKeyPath] = pre[oldKeyPath]
    /\ (Finished("prepare") /\ HasKey(pre, keyPath) /\ NoRecord(pre, newKeyPath)) =>
          /\ exit = "ok"
          /\ ExistsSync(fs, newKeyPath)
          /\ IsFullKey(Require(fs, newKeyPath))
          /\ Require(fs, newKeyPath)["n"] = <<"n", generated>>
          /\ \A p \in Paths :
                Get(Require(pre, p), "kid") # Require(fs, newKeyPath)["kid"]

C5_Witness ==
    /\ Finished("prepare") /\ exit = "ok"
    /\ NoRecord(pre, newKeyPath)
    /\ HasKey(fs, newKeyPath)
    /\ HasKey(pre, oldKeyPath)

\* C6: a retire that runs to its end on a ring with a non-empty active key
\* succeeds, leaves the empty record in retiring and leaves the active and
\* pending files as they were, whatever retiring and pending held.
C6_RetireWipesOnlyRetiring ==
    (Finished("retire") /\ HasKey(pre, keyPath)) =>
        /\ exit = "ok"
        /\ fs[oldKeyPath] = File(EmptyObj)
        /\ fs[keyPath] = pre[keyPath]
        /\ fs[newKeyPath] = pre[newKeyPath]

C6_Witness ==
    /\ Finished("retire") /\ exit = "ok"
    /\ HasKey(pre, oldKeyPath)
    /\ HasKey(pre, newKeyPath)
    /\ ~HasKey(fs, oldKeyPath)

\* C7: once the bootstrap has written the key files, the active file holds
\* a fully-formed private key in every state, and no step of any script,
\* ended or stopped, makes it absent, empty or public-only again.
C7_ActiveAlwaysFull ==
    /\ [](bootstrapped => ActiveIsFull(fs))
    /\ [][(bootstrapped /\ ActiveIsFull(fs)) => ActiveIsFull(fs')]_vars

\* C8: in every state the retiring file holds the empty record or a record
\* with exactly the public fields kty, alg, kid, fxa-createdAt, use, n, e, and
\* so no private RSA parameter; where a stopped write left the file cut,
\* the text it holds a part of is the text of such a record.
C8_RetiringPublicOnly ==
    LET r == fs[oldKeyPath].data
    IN  /\ r = EmptyObj \/ DOMAIN r = PublicFields
        /\ DOMAIN r \cap PrivateFields = {}

C8_Witness ==
    /\ Finished("activate") /\ exit = "ok"
    /\ DOMAIN Require(fs, oldKeyPath) = PublicFields
    /\ Require(fs, oldKeyPath)["kid"] = Require(pre, keyPath)["kid"]

\* C9: in every state, the states between the file writes of a transition
\* among them, the kids of the non-empty files are pairwise distinct.
C9_DistinctKids ==
    \A p, q \in Paths :
        (p # q /\ HasKey(fs, p) /\ HasKey(fs, q)) =>
            Get(Require(fs, p), "kid") # Get(Require(fs, q), "kid")

\* C10: from the end of a completed activate until the next write of a retire
\* or of an activate, the key set built from the files has an entry with the
\* kid, n and e of the key that was active before that activate.
C10_OutgoingKeyPublished ==
    (NonEmpty(outgoing) /\ Loadable(fs)) =>
        \E i \in 1..Len(Publish(fs)) :
            /\ Publish(fs)[i]["kid"] = outgoing["kid"]
            /\ Publish(fs)[i]["n"] = outgoing["n"]
            /\ Publish(fs)[i]["e"] = outgoing["e"]
            /\ DOMAIN Publish(fs)[i] = PublicFields

C10_Witness ==
    /\ NonEmpty(outgoing)
    /\ script = "prepare" /\ exit = "ok"
    /\ Len(Publish(fs)) = 3
    /\ Publish(fs)[3]["kid"] = outgoing["kid"]

\* C11 (as claimed): a response the jwks handler gives after a completed
\* prepare, activate or retire is the projection of the ring as the files
\* hold it after that transition.
C11_ResponseFollowsRing ==
    [][(Jwks /\ pc = "idle" /\ exit = "ok" /\ script \in Transitions)
          => resp' = Publish(fs)]_vars

\* C11 (as amended): the key set is built once, when the server process
\* loads the route module; KEYS and every response of that process are the
\* projection of the ring as it was at that load, whatever prepare, activate
\* or retire did since.
C11_ResponseIsLoadedRing ==
    /\ KEYS # <<>> => KEYS = Publish(loaded)
    /\ resp # <<>> => resp = KEYS /\ resp = Publish(loaded)

C11_Witness ==
    /\ resp # <<>>
    /\ Finished("activate") /\ exit = "ok"
    /\ resp = Publish(loaded)
    /\ resp # Publish(fs)

\* C12: a key that an activate puts into key.json is the record newKey.json
\* held when that activate started, and the key set built from the files as
\* they were then has its public projection as an entry.
C12_ActivatedKeyWasPending ==
    (script = "activate" /\ fs[keyPath] # pre[keyPath] /\ HasKey(fs, keyPath)) =>
        /\ HasKey(pre, newKeyPath)
        /\ fs[keyPath] = pre[newKeyPath]
        /\ Loadable(pre) =>
              \E i \in 1..Len(Publish(pre)) :
                  Publish(pre)[i] = ExtractPublicKey(Require(fs, keyPath))

C12_Witness ==
    /\ Finished("activate") /\ exit = "ok"
    /\ fs[keyPath] # pre[keyPath]
    /\ Len(Publish(pre)) = 3
    /\ Publish(pre)[2]["kid"] = Require(fs, keyPath)["kid"]

\* the configured optional keys of a KEYS call that are set
SetOptional(c) ==
    {x \in {"newPrivKey", "oldPubKey"} : c[x].truthy}

\* C13: the key set has one entry for the active key, then one for the new
\* key if it is set, then one for the old key if it is set: 1 + the number of
\* optional keys set, with the kids in that order.
C13_KeysOrderAndCount ==
    (call.fn = "KEYS" /\ ret # NoCall) =>
        LET ks == ret.val
        IN  /\ Len(ks) = 1 + Cardinality(SetOptional(call))
            /\ ks[1]["kid"] = Get(call.privKey.obj, "kid")
            /\ call.newPrivKey.truthy =>
                  ks[2]["kid"] = Get(call.newPrivKey.obj, "kid")
            /\ call.oldPubKey.truthy =>
                  ks[Len(ks)]["kid"] = Get(call.oldPubKey.obj, "kid")

C13_Witness ==
    /\ call.fn = "KEYS" /\ ret # NoCall
    /\ Len(ret.val) = 3
    /\ ret.val[1]["kid"] = <<0, PubKeyHash(1)>>
    /\ ret.val[2]["kid"] = <<"new">>
    /\ ret.val[3]["kid"] = <<"old">>

\* C14: every entry of the key set has exactly the properties kty, alg, kid,
\* fxa-createdAt, use, n, e; alg is 'RS256' and use is 'sig' whatever the
\* configured record holds, the other five are the record's own (undefined
\* where it has none), and no private parameter of the record is in the entry.
C14_EntriesArePublic ==
    (call.fn = "KEYS" /\ ret # NoCall) =>
        \A i \in 1..Len(ret.val) :
            LET entry == ret.val[i]
            IN  /\ DOMAIN entry = PublicFields
                /\ DOMAIN entry \cap PrivateFields = {}
                /\ entry["alg"] = <<"RS256">>
                /\ entry["use"] = <<"sig">>
                /\ \E x \in {"privKey", "newPrivKey", "oldPubKey"} :
                      /\ call[x].truthy
                      /\ \A f \in PublicFields \ {"alg", "use"} :
                            entry[f] = Get(call[x].obj, f)

C14_Witness ==
    /\ call.fn = "KEYS" /\ ret # NoCall
    /\ IsFullKey(call.privKey.obj)
    /\ "d" \in DOMAIN call.newPrivKey.obj
    /\ Len(ret.val) = 3
    /\ ret.val[2]["fxa-createdAt"] = Undefined

\* C15: a server that loaded a ring whose newKey.json and oldKey.json are
\* missing or hold the empty record publishes exactly one key, the public
\* projection of the active key.
C15_ActiveOnlyRing ==
    (KEYS # <<>> /\ ~HasKey(loaded, newKeyPath) /\ ~HasKey(loaded, oldKeyPath)) =>
        KEYS = <<ExtractPublicKey(Require(loaded, keyPath))>>

C15_Witness ==
    /\ resp # <<>> /\ Len(resp) = 1
    /\ loaded[newKeyPath] = File(EmptyObj)
    /\ loaded[oldKeyPath] = File(EmptyObj)
    /\ resp[1]["kid"] = Require(loaded, keyPath)["kid"]

\* C16: extractPublicKey(k) has no private property, has the kid, n, e, kty
\* and fxa-createdAt of k, and leaves k as it was.
C16_ExtractPublicKey ==
    (call.fn = "extractPublicKey" /\ ret # NoCall) =>
        /\ DOMAIN ret.val \cap PrivateFields = {}
        /\ \A f \in {"kid", "n", "e", "kty", "fxa-createdAt"} :
              ret.val[f] = Get(call.privKey, f)
        /\ ret.arg = call.privKey

C16_Witness ==
    /\ call.fn = "extractPublicKey" /\ ret # NoCall
    /\ IsFullKey(call.privKey)
    /\ ret.val["fxa-createdAt"] = <<3600>>
    /\ ret.val["n"] = <<"n", 2>>

\* C17 (as claimed): fxa-createdAt of a key generated at the instant `at`
\* (ms) is a multiple of 3600 s, is not after `at`, and is less than an hour
\* before it.
C17_CreatedAtIsFloor ==
    (call.fn = "generatePrivateKey" /\ ret # NoCall) =>
        LET c == ret.val["fxa-createdAt"][1]
        IN  /\ c % 3600 = 0
            /\ c * 1000 <= call.at
            /\ call.at - c * 1000 < 3600000

\* C17 (as amended): fxa-createdAt is the instant rounded to the nearest
\* hour, halves up: a multiple of 3600 s with
\* -1800 s <= now - createdAt < 1800 s, so it may be after the instant.
C17_CreatedAtIsNearestHour ==
    (call.fn = "generatePrivateKey" /\ ret # NoCall) =>
        LET c == ret.val["fxa-createdAt"][1]
        IN  /\ c % 3600 = 0
            /\ c * 1000 - 1800000 <= call.at
            /\ call.at < c * 1000 + 1800000

C17_Witness ==
    /\ call.fn = "generatePrivateKey" /\ ret # NoCall
    /\ call.at = 3 * GridMs
    /\ ret.val["fxa-createdAt"][1] * 1000 > call.at

\* the relying party of a call gets a derived identifier
Applies(e) == ppid.enabled /\ Hex(e.clientIdBuf) \in ppid.enabledClientIds

\* the generateSub calls that returned
Returned == BagToSet(issued)

\* the relying party of a call is in the rotating set
Rotates(e) == Hex(e.clientIdBuf) \in ppid.rotatingClientIds

\* two calls with the same user, relying party and seed
SameArgs(e1, e2) ==
    /\ e1.userIdBuf = e2.userIdBuf
    /\ e1.clientIdBuf = e2.clientIdBuf
    /\ ClientSeed(e1.seedArg) = ClientSeed(e2.seedArg)

\* C18: with PPID support off, or for a relying party outside the enabled
\* set (in the rotating set or not), generateSub returns hex(userId), for
\* every seed and at every time.
C18_FallbackIsHexUserId ==
    \A e \in Returned : ~Applies(e) => e.sub = Hex(e.userIdBuf)

C18_Witness ==
    \E e \in Returned :
        /\ ppid.enabled /\ e.clientIdBuf = RpOff /\ Rotates(e)
        /\ e.seedArg = [given |-> TRUE, value |-> 1]
        /\ e.at > 0
        /\ e.userIdBuf = <<222, 173>>
        /\ e.sub = <<<<"d">>, <<"e">>, <<"a">>, <<"d">>>>

\* C19: for an enabled relying party that does not rotate, two calls with the
\* same user, relying party and seed return the same identifier at any two
\* times.
C19_StableOverTime ==
    \A e1, e2 \in Returned :
        (Applies(e1) /\ ~Rotates(e1) /\ SameArgs(e1, e2)) => e1.sub = e2.sub

C19_Witness ==
    \E e1, e2 \in Returned :
        /\ Applies(e1) /\ ~Rotates(e1) /\ SameArgs(e1, e2)
        /\ e1.at \div ppid.rotationPeriodMS # e2.at \div ppid.rotationPeriodMS
        /\ e1.sub = e2.sub
        /\ e1.sub # Hex(e1.userIdBuf)

\* C20: for an enabled rotating relying party, two calls with the same user,
\* relying party and seed made at times in the same bucket
\* floor(t / rotationPeriodMS) return the same identifier, whenever the
\* calls return.
C20_StableWithinBucket ==
    \A e1, e2 \in Returned :
        (/\ Applies(e1) /\ Rotates(e1) /\ SameArgs(e1, e2)
         /\ e1.at \div ppid.rotationPeriodMS = e2.at \div ppid.rotationPeriodMS)
            => e1.sub = e2.sub

C20_Witness ==
    \E e1, e2 \in Returned :
        /\ Applies(e1) /\ Rotates(e1) /\ SameArgs(e1, e2)
        /\ e1.at # e2.at
        /\ e1.at \div ppid.rotationPeriodMS = e2.at \div ppid.rotationPeriodMS
        /\ e1.returnedAt \div ppid.rotationPeriodMS
              > e1.at \div ppid.rotationPeriodMS
        /\ e1.sub = e2.sub

\* the keying material string of a call that gets a derived identifier
IkmOf(e) ==
    Ikm(Hex(e.clientIdBuf), Hex(e.userIdBuf), ClientSeed(e.seedArg),
        TimeBasedContext(ppid, Hex(e.clientIdBuf), e.at))

\* C21: for an enabled rotating relying party, two calls with the same user,
\* relying party and seed made at times in different buckets
\* floor(t / rotationPeriodMS) have different keying material strings and
\* return different identifiers.
C21_DiffersAcrossBuckets ==
    \A e1, e2 \in Returned :
        (/\ Applies(e1) /\ Rotates(e1) /\ SameArgs(e1, e2)
         /\ e1.at \div ppid.rotationPeriodMS # e2.at \div ppid.rotationPeriodMS)
            => IkmOf(e1) # IkmOf(e2) /\ e1.sub # e2.sub

C21_Witness ==
    \E e1, e2 \in Returned :
        /\ Applies(e1) /\ Rotates(e1) /\ SameArgs(e1, e2)
        /\ e1.at \div ppid.rotationPeriodMS = 0
        /\ e2.at \div ppid.rotationPeriodMS = 1
        /\ e1.sub # e2.sub
        /\ Len(e1.sub) = Len(e2.sub)

\* C22 (as claimed): every identifier generateSub returns is
\* 2 * unique.id hex characters long, whether it is derived or not.
C22_LengthAlwaysUniqueId ==
    \A e \in Returned : Len(e.sub) = 2 * ppid.subLengthBytes

\* C22 (as amended): a derived identifier is 2 * unique.id hex characters
\* long; the identifier of a call that gets no derived identifier (support
\* off, or relying party not enabled) is hex(userId), two characters for
\* each byte of the user id, whatever unique.id is.
C22_LengthByCase ==
    \A e \in Returned :
        /\ Applies(e) => Len(e.sub) = 2 * ppid.subLengthBytes
        /\ ~Applies(e) => Len(e.sub) = 2 * Len(e.userIdBuf)

C22_Witness ==
    \E e1, e2 \in Returned :
        /\ e1.userIdBuf = <<190>> /\ e2.userIdBuf = <<190>>
        /\ Applies(e1) /\ Len(e1.sub) = 4
        /\ ~Applies(e2) /\ Len(e2.sub) = 2

\* C23: for one user, one seed and one time, two different enabled relying
\* parties have different keying material strings and get different
\* identifiers.
C23_DiffersAcrossRelyingParties ==
    \A e1, e2 \in Returned :
        (/\ Applies(e1) /\ Applies(e2)
         /\ e1.clientIdBuf # e2.clientIdBuf
         /\ e1.userIdBuf = e2.userIdBuf
         /\ ClientSeed(e1.seedArg) = ClientSeed(e2.seedArg)
         /\ e1.at = e2.at)
            => IkmOf(e1) # IkmOf(e2) /\ e1.sub # e2.sub

C23_Witness ==
    \E e1, e2 \in Returned :
        /\ e1.clientIdBuf = RpStable /\ e2.clientIdBuf = RpRotating
        /\ Applies(e1) /\ Applies(e2)
        /\ e1.userIdBuf = e2.userIdBuf
        /\ e1.seedArg # e2.seedArg /\ ClientSeed(e1.seedArg) = ClientSeed(e2.seedArg)
        /\ e1.at = e2.at /\ e1.at < ppid.rotationPeriodMS
        /\ e1.sub # e2.sub

\* C24: a gen_keys run that finds any of the three key files never gets to a
\* write and leaves the three files as they were; a run that finds none and
\* reaches its end leaves a full key in key.json, the empty record in
\* newKey.json and in oldKey.json the public projection of a second generated
\* key; at no point of a run is a file that existed at its start changed.
C24_GenKeysNeverOverwrites ==
    /\ (script = "gen_keys" /\ \E p \in Paths : ExistsSync(pre, p)) =>
          pc = "idle" /\ exit = "exit" /\ fs = pre
    /\ script = "gen_keys" =>
          \A p \in Paths : ExistsSync(pre, p) => fs[p] = pre[p]
    /\ (Finished("gen_keys") /\ \A p \in Paths : ~ExistsSync(pre, p)) =>
          /\ exit = "ok"
          /\ ActiveIsFull(fs)
          /\ Require(fs, keyPath)["n"] = <<"n", generated - 1>>
          /\ fs[newKeyPath] = File(EmptyObj)
          /\ ExistsSync(fs, oldKeyPath)
          /\ DOMAIN Require(fs, oldKeyPath) = PublicFields
          /\ Require(fs, oldKeyPath)["n"] = <<"n", generated>>

\* C25: a server process that reads the key files while an activate runs
\* loads either the files as they were when the activate started or the files
\* as the complete activate leaves them, and never a ring whose active and
\* retiring keys have one kid or whose active and pending files hold one key.
C25_ReaderSeesWholeRing ==
    [][(ServerStart /\ script = "activate" /\ pc # "idle") =>
          /\ loaded' = pre \/ IsPost("activate", pre, loaded')
          /\ Get(Require(loaded', keyPath), "kid")
                # Get(Require(loaded', oldKeyPath), "kid")
          /\ loaded'[keyPath] # loaded'[newKeyPath]]_vars

\* C26: a retire that runs to its end on a ring with a non-empty active key
\* succeeds and leaves a ring another retire does not change: oldKey.json
\* holds the empty record, and when it held the empty record before, the
\* three files are as they were; when the retiring slot was empty (file
\* missing or empty record) every slot holds the record it held.
C26_RetireIdempotent ==
    (Finished("retire") /\ HasKey(pre, keyPath)) =>
        /\ exit = "ok"
        /\ fs[oldKeyPath] = File(EmptyObj)
        /\ pre[oldKeyPath] = File(EmptyObj) => fs = pre
        /\ NoRecord(pre, oldKeyPath) =>
              /\ Require(fs, oldKeyPath) = Require(pre, oldKeyPath)
              /\ fs[keyPath] = pre[keyPath] /\ fs[newKeyPath] = pre[newKeyPath]

C26_Witness ==
    /\ Finished("retire") /\ exit = "ok"
    /\ pre[oldKeyPath] = File(EmptyObj)
    /\ HasKey(pre, newKeyPath)
    /\ fs = pre

\* C27: newKey.json holds the empty record or a fully-formed private key in
\* every state but those in which a stopped write has left it cut, and a
\* step leaves it cut only by stopping the run, so that runs that reach their
\* end never do; a key an activate puts into key.json was a fully-formed
\* private key in newKey.json when that activate started.
C27_PendingEmptyOrFull ==
    /\ [](\/ fs[newKeyPath].cut
          \/ Require(fs, newKeyPath) = EmptyObj
          \/ IsFullKey(Require(fs, newKeyPath)))
    /\ []((script = "activate" /\ fs[keyPath] # pre[keyPath]
              /\ HasKey(fs, keyPath)) =>
            IsFullKey(Require(pre, newKeyPath)) /\ fs[keyPath] = pre[newKeyPath])
    /\ [][(fs'[newKeyPath].cut /\ ~fs[newKeyPath].cut) => exit' \in Stopped]_vars

C27_Witness ==
    /\ Finished("activate") /\ exit = "ok"
    /\ fs[keyPath] # pre[keyPath]
    /\ IsFullKey(Require(fs, keyPath))
    /\ fs[newKeyPath] = File(EmptyObj)
    /\ generated >= 4

\* the private parameters of the key record k, as a set of values
PrivateParts(k) == {Get(k, f) : f \in PrivateFields} \ {Undefined}

\* C28: from the end of a completed activate until the next write of a retire
\* or of an activate, through every prepare in between, no file holds a
\* private parameter of the key that was active before that activate.
C28_ReplacedPrivateGone ==
    NonEmpty(outgoing) =>
        \A p \in Paths : PrivateParts(fs[p].data) \cap PrivateParts(outgoing) = {}

\* C29: a prepare, activate or retire started on key files whose key.json is
\* missing or holds the empty record ends with 'missing active signing key'
\* without a write: the three files are as they were.
C29_MissingActiveFails ==
    (script \in Transitions /\ NoRecord(pre, keyPath)) =>
        /\ pc = "idle"
        /\ exit = "missing active signing key"
        /\ fs = pre

C29_Witness ==
    /\ Finished("activate") /\ exit = "missing active signing key"
    /\ pre[keyPath] = File(EmptyObj)
    /\ HasKey(pre, newKeyPath) /\ HasKey(pre, oldKeyPath)
    /\ fs = pre

\* C30: a running or stopped activate has written oldKey.json first, then
\* key.json, then newKey.json; at each of its points, those at which a write
\* was stopped part-way among them, the public projection
\* of the key that was active at its start is the projection of key.json or
\* the content of oldKey.json, and the full key that was pending at its start
\* is in newKey.json or in key.json.
C30_ActivateOrderKeepsKeys ==
    (script = "activate" /\ HasKey(pre, keyPath) /\ HasKey(pre, newKeyPath)) =>
        LET oldPub == ExtractPublicKey(Require(pre, keyPath))
        IN  /\ fs[keyPath] # pre[keyPath] => fs[oldKeyPath] = File(oldPub)
            /\ fs[newKeyPath] # pre[newKeyPath] => fs[keyPath] = pre[newKeyPath]
            /\ pc = "act_write_old" => fs = pre
            /\ pc = "act_write_key" =>
                  fs = WriteFileSync(pre, oldKeyPath, oldPub)
            /\ pc = "act_wipe_new" =>
                  fs = WriteFileSync(WriteFileSync(pre, oldKeyPath, oldPub),
                                     keyPath, Require(pre, newKeyPath))
            /\ \/ ExtractPublicKey(Require(fs, keyPath)) = oldPub
               \/ Require(fs, oldKeyPath) = oldPub
            /\ \/ fs[newKeyPath] = pre[newKeyPath]
               \/ fs[keyPath] = pre[newKeyPath]

C30_Witness ==
    /\ script = "activate" /\ pc = "idle" /\ exit = "killed"
    /\ HasKey(pre, keyPath) /\ HasKey(pre, newKeyPath) /\ HasKey(pre, oldKeyPath)
    /\ fs[keyPath].cut
    /\ fs[newKeyPath] = pre[newKeyPath]
    /\ fs[oldKeyPath] = File(ExtractPublicKey(Require(pre, keyPath)))

\* the kids of the keys the files hold
KidsIn(f) == {Get(Require(f, p), "kid") : p \in {q \in Paths : HasKey(f, q)}}

\* the kids of the entries of a key set
KidsOf(ks) == {ks[i]["kid"] : i \in 1..Len(ks)}

\* C31: an activate started on files whose key.json and newKey.json hold the
\* same key (what an activate stopped between its second and third write
\* leaves) succeeds when it runs to its end; key.json keeps that key,
\* oldKey.json gets its public projection, so retiring has the kid of
\* active, newKey.json is emptied, and no file and no entry of the published
\* key set has another kid: the key that was active before the stopped
\* activate, which oldKey.json held, is gone.
C31_RerunRetiresNewKey ==
    (Finished("activate") /\ HasKey(pre, keyPath)
        /\ pre[keyPath] = pre[newKeyPath]) =>
        /\ exit = "ok"
        /\ fs[keyPath] = pre[keyPath]
        /\ fs[oldKeyPath] = File(ExtractPublicKey(Require(fs, keyPath)))
        /\ fs[newKeyPath] = File(EmptyObj)
        /\ KidsIn(fs) = {Require(fs, keyPath)["kid"]}
        /\ KidsOf(Publish(fs)) = {Require(fs, keyPath)["kid"]}

C31_Witness ==
    /\ Finished("activate") /\ exit = "ok"
    /\ pre[keyPath] = pre[newKeyPath]
    /\ HasKey(pre, oldKeyPath)
    /\ Require(pre, oldKeyPath)["kid"] # Require(pre, keyPath)["kid"]
    /\ Require(pre, oldKeyPath)["kid"] \notin KidsIn(fs)
    /\ Require(fs, oldKeyPath)["kid"] = Require(fs, keyPath)["kid"]

\* C32: an activate that runs to its end on files with an active, a new and
\* an old key succeeds and writes over the old key: oldKey.json then holds
\* the projection of the key just replaced, and the kid of the key it held
\* before is in no file (unless that was the active or the new key itself);
\* in every state the files hold at most three keys and the key set built
\* from them has at most three entries.
C32_ActivateOverwritesRetiring ==
    /\ Cardinality(KidsIn(fs)) <= 3
    /\ Len(Publish(fs)) <= 3
    /\ (Finished("activate") /\ HasKey(pre, keyPath) /\ HasKey(pre, newKeyPath)
            /\ HasKey(pre, oldKeyPath)) =>
          /\ exit = "ok"
          /\ fs[oldKeyPath] = File(ExtractPublicKey(Require(pre, keyPath)))
          /\ Require(pre, oldKeyPath)["kid"]
                \notin {Require(pre, keyPath)["kid"], Require(pre, newKeyPath)["kid"]}
                => Require(pre, oldKeyPath)["kid"] \notin KidsIn(fs)

C32_Witness ==
    /\ Finished("activate") /\ exit = "ok"
    /\ Get(Require(pre, oldKeyPath), "n") = <<"n", 1>>
    /\ Get(Require(fs, oldKeyPath), "n") = <<"n", 3>>
    /\ Get(Require(fs, keyPath), "n") = <<"n", 4>>
    /\ \A p \in Paths : Get(Require(fs, p), "n") # <<"n", 1>>
    /\ Len(Publish(pre)) = 3 /\ Len(Publish(fs)) = 2

\* the preconditions of the three scripts, on the files f
PrepareEnabled(f) ==
    /\ ~RequireThrows(f, keyPath) /\ ~MissingActiveKey(f)
    /\ ~RequireThrows(f, newKeyPath) /\ ~NewKeyAlreadyExists(f)
ActivateEnabled(f) ==
    /\ ~RequireThrows(f, keyPath) /\ ~MissingActiveKey(f)
    /\ ~RequireThrows(f, newKeyPath) /\ ~MissingNewKey(f)
RetireEnabled(f) == ~RequireThrows(f, keyPath) /\ ~MissingActiveKey(f)

\* C33: on files with a non-empty active key, prepare passes its asserts
\* exactly when newKey.json is missing or empty, activate exactly when it
\* holds a key, so exactly one of the two, and retire always; and a run of a
\* script that reaches its end succeeds exactly when its asserts pass on the
\* files it started on.
C33_OneOfPrepareActivate ==
    /\ (bootstrapped /\ HasKey(fs, keyPath)) =>
          /\ PrepareEnabled(fs) <=> ~HasKey(fs, newKeyPath)
          /\ ActivateEnabled(fs) <=> HasKey(fs, newKeyPath)
          /\ PrepareEnabled(fs) # ActivateEnabled(fs)
          /\ RetireEnabled(fs)
    /\ (Finished("prepare") /\ bootstrapped /\ HasKey(pre, keyPath)) =>
          ((exit = "ok") <=> ~HasKey(pre, newKeyPath))
    /\ (Finished("activate") /\ bootstrapped /\ HasKey(pre, keyPath)) =>
          ((exit = "ok") <=> HasKey(pre, newKeyPath))
    /\ (Finished("retire") /\ HasKey(pre, keyPath)) => exit = "ok"

\* C34: a step that changes newKey.json while it holds a key is a step of
\* an activate: it writes the empty record there, and key.json holds that
\* very key after the step; no step of prepare, retire or gen_keys changes a
\* newKey.json that holds a key.
C34_PendingOnlyLeavesByActivate ==
    [][(HasKey(fs, newKeyPath) /\ fs'[newKeyPath] # fs[newKeyPath]) =>
          /\ script' = "activate"
          /\ fs'[keyPath] = fs[newKeyPath]
          /\ fs'[newKeyPath].data = EmptyObj]_vars

\* what a script run on the files f ends with, when its asserts look at f
Outcome(name, f) ==
    CASE ~HasKey(f, keyPath) -> "missing active signing key"
      [] HasKey(f, keyPath) /\ name = "prepare" /\ HasKey(f, newKeyPath) ->
            "new key alreayd exists; perhaps you meant to activate it?"
      [] HasKey(f, keyPath) /\ name = "activate" /\ ~HasKey(f, newKeyPath) ->
            "missing new signing key"
      [] OTHER -> "ok"

\* C35: every call of a main, also the second and later calls inside one
\* process, ends as the files persisted at the time of the call decide: a
\* prepare called on files with a new key fails, an activate called on files
\* with an active and a new key succeeds.
C35_MainsSeeCurrentFiles ==
    script \in Transitions => exit = Outcome(script, pre)

\* C36: every entry of the key set is what keys.extractPublicKey returns for
\* the configured record it was made from: pub(k) and extractPublicKey(k)
\* have the same properties with the same values.
C36_PubIsExtractPublicKey ==
    (call.fn = "KEYS" /\ ret # NoCall) =>
        /\ ret.val[1] = ExtractPublicKey(call.privKey.obj)
        /\ call.newPrivKey.truthy =>
              ret.val[2] = ExtractPublicKey(call.newPrivKey.obj)
        /\ call.oldPubKey.truthy =>
              ret.val[Len(ret.val)] = ExtractPublicKey(call.oldPubKey.obj)

C36_Witness ==
    /\ call.fn = "KEYS" /\ ret # NoCall
    /\ Get(call.privKey.obj, "alg") = <<"ES256">>
    /\ IsFullKey(call.newPrivKey.obj)
    /\ DOMAIN call.oldPubKey.obj = PublicFields
    /\ ret.val[1] = ExtractPublicKey(call.privKey.obj)
    /\ ret.val[1]["alg"] = <<"RS256">>
    /\ ret.val[3] = call.oldPubKey.obj

\* the time-based context of a call that gets a derived identifier
ContextOf(e) == TimeBasedContext(ppid, Hex(e.clientIdBuf), e.at)

\* C37: for an enabled rotating relying party the context of a call at time
\* t is floor(t / rotationPeriodMS): period * context <= t <
\* period * (context + 1), a later call never has a smaller context, and two
\* calls at least one period apart have different contexts; for an enabled
\* relying party that does not rotate the context is 0.
C37_TimeBucket ==
    \A e1, e2 \in Returned :
        LET P == ppid.rotationPeriodMS
        IN  /\ (Applies(e1) /\ ~Rotates(e1)) => ContextOf(e1) = 0
            /\ (Applies(e1) /\ Rotates(e1)) =>
                  /\ ContextOf(e1) = e1.at \div P
                  /\ P * ContextOf(e1) <= e1.at
                  /\ e1.at < P * (ContextOf(e1) + 1)
            /\ (Applies(e1) /\ Rotates(e1) /\ e1.clientIdBuf = e2.clientIdBuf) =>
                  /\ e1.at <= e2.at => ContextOf(e1) <= ContextOf(e2)
                  /\ e2.at - e1.at >= P => ContextOf(e1) # ContextOf(e2)

C37_Witness ==
    \E e1, e2 \in Returned :
        /\ Applies(e1) /\ Rotates(e1) /\ e1.clientIdBuf = e2.clientIdBuf
        /\ e1.at = TickMs /\ ContextOf(e1) = 0
        /\ e2.at = 2 * TickMs /\ ContextOf(e2) = 1
        /\ e2.at - e1.at < ppid.rotationPeriodMS

\* the keying material hkdf was called with to derive the identifier sub
Km(sub) == sub[1][2][2]

\* the four values a generateSub call builds its keying material from
IkmTuple(c) ==
    <<Hex(c.clientIdBuf), Hex(c.userIdBuf), ClientSeed(c.seedArg),
      c.at \div IkmConfig.rotationPeriodMS>>

\* C38: two generateSub calls whose relying party, user, seed or time bucket
\* differ pass different keying material to hkdf, also when the hex
\* identifiers have different lengths and the digits of seed and bucket
\* could run into each other.
C38_IkmInjective ==
    (call.fn = "generateSub" /\ ret \notin {NoCall, Awaiting}) =>
        \A other \in GenerateSubInputs :
            IkmTuple(other) # IkmTuple(call) =>
                Km(GenerateSub(IkmConfig, other.userIdBuf, other.clientIdBuf,
                               other.seedArg, other.at)) # Km(ret.val)

C38_Witness ==
    /\ call.fn = "generateSub" /\ ret \notin {NoCall, Awaiting}
    /\ call.clientIdBuf = <<171>> /\ call.userIdBuf = <<205, 16>>
    /\ call.seedArg = [given |-> TRUE, value |-> 1]
    /\ call.at = 10 * IkmConfig.rotationPeriodMS
    /\ Len(Km(ret.val)) = 12
    /\ Km(ret.val)[3] = <<".">>

\* C39: a generateSub call without a seed returns what the call with the
\* same user and relying party at the same time and with seed 0 returns.
C39_OmittedSeedIsZero ==
    \A e1, e2 \in Returned :
        (/\ ~e1.seedArg.given
         /\ e2.seedArg = [given |-> TRUE, value |-> 0]
         /\ e1.userIdBuf = e2.userIdBuf
         /\ e1.clientIdBuf = e2.clientIdBuf
         /\ e1.at = e2.at)
            => e1.sub = e2.sub

C39_Witness ==
    \E e1, e2 \in Returned :
        /\ ~e1.seedArg.given
        /\ e2.seedArg = [given |-> TRUE, value |-> 0]
        /\ e1.userIdBuf = e2.userIdBuf
        /\ e1.clientIdBuf = RpRotating /\ e2.clientIdBuf = RpRotating
        /\ e1.at = e2.at /\ e1.at > 0
        /\ Applies(e1)
        /\ e1.sub = e2.sub

====
